---------------------------- MODULE Spec2Model ----------------------------
(***************************************************************************)
(* OH Parser: the command-line front end (oh_parser/cli.py, main) and the  *)
(* library it calls (oh_parser.loader: load_profiles, list_subjects,       *)
(* get_profile; oh_parser.extract: inspect_profile, get_available_paths,   *)
(* summarize_profiles).                                                    *)
(*                                                                         *)
(* main() is modelled from cli.py.  The loader and extract modules are not *)
(* among the source files; they are modelled from sections 3, 4 and 8 of   *)
(* the specification.                                                      *)
(*                                                                         *)
(*   Spec     one invocation of main(): parse_args -> load_profiles ->     *)
(*            one of the branches of the if/elif chain.                    *)
(*   LibSpec  a caller of the library (as testing.py is): load_profiles,   *)
(*            then any sequence of library calls on the returned store.    *)
(***************************************************************************)
EXTENDS Integers, Sequences, FiniteSets

(***************************************************************************)
(* Bounds of the model.                                                    *)
(***************************************************************************)
\* longest directory listing drawn from the small file universe
MaxFiles == 2
\* largest number of subjects in a directory (must exceed SubjectsShown)
MaxSubjects == 11
\* largest number of top-level keys of a document (must exceed PathsShown)
MaxWide == 51
\* deepest nesting of a document (must exceed PathsMaxDepth)
MaxChain == 7
\* largest max_depth a library caller passes
MaxLibDepth == 3

(***************************************************************************)
(* Program constants of cli.py.                                            *)
(***************************************************************************)
DEFAULT_OH_DIRECTORY == "E:\\Backup PrevOccupAI_PLUS Data\\OH_profiles"
\* --depth default
DefaultDepth == 3
\* get_available_paths(profile, max_depth=6)
PathsMaxDepth == 6
\* paths[:50]
PathsShown == 50
\* subjects[:10]
SubjectsShown == 10

(***************************************************************************)
(* Documents: a JSON value tree, a tagged variant Mapping / Sequence /     *)
(* Scalar.  A Mapping's items are its (key, value) pairs in insertion      *)
(* order; a Sequence's items are its elements in index order (key "").     *)
(* NoneDoc is Python's None, the absent value.                             *)
(***************************************************************************)
Scalar(v) == [tag |-> "Scalar", items |-> <<>>, value |-> v]

Mapping(items) == [tag |-> "Mapping", items |-> items, value |-> 0]

Sequence(elems) ==
  [tag |-> "Sequence",
   items |-> [i \in 1..Len(elems) |-> [key |-> "", value |-> elems[i]]],
   value |-> 0]

Item(k, d) == [key |-> k, value |-> d]

NoneDoc == [tag |-> "None", items |-> <<>>, value |-> 0]

IsContainer(doc) == doc.tag \in {"Mapping", "Sequence"}

\* the specification's example documents: A.json = {"x": {"y": 1}}, B.json = {"x": 1}
ExampleA == Mapping(<<Item("x", Mapping(<<Item("y", Scalar(1))>>))>>)

ExampleB == Mapping(<<Item("x", Scalar(1))>>)

\* {}
EmptyDoc == Mapping(<<>>)

\* {"x": [1, 2, 3, 4, {"y": 1}], "z": 2}
ListDoc ==
  Mapping(<<Item("x", Sequence(<<Scalar(1), Scalar(2), Scalar(3), Scalar(4),
                                 Mapping(<<Item("y", Scalar(1))>>)>>)),
            Item("z", Scalar(2))>>)

\* [v1, ..., vn]: a document with n top-level nodes
Wide(n) == Sequence([i \in 1..n |-> Scalar(i)])

\* {"x": {"x": ... {"x": 1}}}: k nested mappings
RECURSIVE Chain(_)
Chain(k) == IF k = 0 THEN Scalar(1) ELSE Mapping(<<Item("x", Chain(k - 1))>>)

(***************************************************************************)
(* Subject identifiers are file stems.  SubjectOrder lists the identifiers *)
(* of the model in the order Python's sorted() gives strings (code points: *)
(* upper case before lower case).                                          *)
(***************************************************************************)
SubjectOrder ==
  <<"A", "B", "S01", "S02", "S03", "S04", "S05", "S06", "S07", "S08", "S09",
    "S10", "S11", "S12", "S13", "ghost", "notes">>

Rank(s) == CHOOSE i \in 1..Len(SubjectOrder) : SubjectOrder[i] = s

\* the n-th of the identifiers S01, S02, ...
BigStem(i) == SubjectOrder[i + 2]

(***************************************************************************)
(* Directories.  A file is its stem, whether its name matches the JSON     *)
(* naming convention, whether its content parses, and the parsed document. *)
(* files is the directory listing in scan order.                           *)
(***************************************************************************)
JsonFile(stem, doc) == [stem |-> stem, json |-> TRUE, parses |-> TRUE, doc |-> doc]

BadFile(stem) == [stem |-> stem, json |-> TRUE, parses |-> FALSE, doc |-> NoneDoc]

OtherFile(stem) == [stem |-> stem, json |-> FALSE, parses |-> FALSE, doc |-> NoneDoc]

Dir(files) == [exists |-> TRUE, files |-> files]

MissingDir == [exists |-> FALSE, files |-> <<>>]

SmallFiles ==
  {JsonFile(s, d) : s \in {"A", "B"}, d \in {ExampleA, ExampleB}}
    \cup {BadFile(s) : s \in {"A", "B"}}
    \cup {OtherFile("notes")}

SmallDirs == UNION {[1..n -> SmallFiles] : n \in 0..MaxFiles}

\* one subject "A" holding a document of interest
SpecialDocs ==
  {EmptyDoc, ListDoc, Scalar(1), Chain(MaxChain)}
    \cup {Wide(n) : n \in (MaxWide - 2)..MaxWide}

\* n well-formed files S_n, ..., S_01: scanned in reverse of sorted order, every
\* other one an empty document
BigDir(n) ==
  Dir([i \in 1..n |-> JsonFile(BigStem(n + 1 - i), IF i % 2 = 0 THEN ExampleB ELSE EmptyDoc)])

Directories ==
  {MissingDir}
    \cup {Dir(fs) : fs \in SmallDirs}
    \cup {Dir(<<JsonFile("A", d)>>) : d \in SpecialDocs}
    \cup {BigDir(n) : n \in (MaxSubjects - 2)..MaxSubjects}


(***************************************************************************)
(* Results of library calls: a value, or the kind of the error raised.     *)
(***************************************************************************)
Ok(v) == [error |-> "", value |-> v]

Err(kind) == [error |-> kind, value |-> <<>>]

(***************************************************************************)
(* Output lines.  One record shape for every line: its kind, a subject id  *)
(* or type name, a number, a path and a row of presence flags; the fields  *)
(* a kind does not use are empty.                                          *)
(***************************************************************************)
Line(kind, id, n, path, present) ==
  [kind |-> kind, id |-> id, n |-> n, path |-> path, present |-> present]

Text(kind) == Line(kind, "", 0, <<>>, <<>>)

(***************************************************************************)
(* oh_parser.loader                                                        *)
(***************************************************************************)
EmptyStore == [s \in {} |-> NoneDoc]

Put(store, k, d) == [s \in DOMAIN store \cup {k} |-> IF s = k THEN d ELSE store[s]]

\* the store after the first n files of the listing: a file that does not match
\* the naming convention is not scanned, one that does not parse is skipped,
\* a later file with the same stem overwrites the earlier one
RECURSIVE LoadFiles(_, _)
LoadFiles(files, n) ==
  IF n = 0 THEN EmptyStore
  ELSE LET before == LoadFiles(files, n - 1)
           f == files[n]
       IN  IF f.json /\ f.parses THEN Put(before, f.stem, f.doc) ELSE before

\* the diagnostics of the first n files: one per matching file that does not parse
RECURSIVE LoadDiagnostics(_, _)
LoadDiagnostics(files, n) ==
  IF n = 0 THEN <<>>
  ELSE LET f == files[n]
       IN  LoadDiagnostics(files, n - 1)
             \o (IF f.json /\ ~f.parses
                 THEN <<Line("parse_failure", f.stem, 0, <<>>, <<>>)>>
                 ELSE <<>>)

\* load_profiles(directory, verbose): the store and what it printed
load_profiles(dir, verbose) ==
  LET store == IF dir.exists THEN LoadFiles(dir.files, Len(dir.files)) ELSE EmptyStore
      diag == IF dir.exists THEN LoadDiagnostics(dir.files, Len(dir.files)) ELSE <<>>
  IN  [store |-> store,
       diagnostics |->
         IF verbose
         THEN diag \o <<Line("loaded", "", Cardinality(DOMAIN store), <<>>, <<>>)>>
         ELSE <<>>]

\* sorted(S) for a set of subject identifiers
RECURSIVE Sorted(_)
Sorted(S) ==
  IF S = {} THEN <<>>
  ELSE LET m == CHOOSE x \in S : \A y \in S : Rank(x) <= Rank(y)
       IN  <<m>> \o Sorted(S \ {m})

\* list_subjects(store): the keys, sorted
list_subjects(store) == Sorted(DOMAIN store)

\* get_profile(store, id): the document, or None; never raises
get_profile(store, id) == Ok(IF id \in DOMAIN store THEN store[id] ELSE NoneDoc)

(***************************************************************************)
(* oh_parser.extract: paths.  A path is the sequence of its segments, a    *)
(* key of a mapping or an index of a sequence ("x.y", "x[0]"); its nesting *)
(* level is the number of its segments.                                    *)
(***************************************************************************)
Key(k) == [key |-> k, idx |-> 0, isIndex |-> FALSE]

Index(i) == [key |-> "", idx |-> i, isIndex |-> TRUE]

\* the segment that addresses the i-th item of a container
SegmentOf(doc, i) == IF doc.tag = "Mapping" THEN Key(doc.items[i].key) ELSE Index(i - 1)

RECURSIVE CollectPaths(_, _, _, _)
RECURSIVE CollectItems(_, _, _, _, _)
\* mutant: descends at max_depth too (depth > max_depth stops)
CollectPaths_Inclusive(doc, prefix, depth, max_depth) ==
  IF ~IsContainer(doc) \/ depth > max_depth THEN <<>>
  ELSE CollectItems(doc, prefix, depth, max_depth, 1)

\* the paths below a node at `depth` whose path is `prefix`, in traversal order:
\* every child yields its path, then the paths below it; no descent at max_depth
CollectPaths(doc, prefix, depth, max_depth) ==
  IF ~IsContainer(doc) \/ depth >= max_depth THEN <<>>
  ELSE CollectItems(doc, prefix, depth, max_depth, 1)

CollectItems(doc, prefix, depth, max_depth, i) ==
  IF i > Len(doc.items) THEN <<>>
  ELSE LET path == Append(prefix, SegmentOf(doc, i))
       IN  <<path>>
             \o CollectPaths(doc.items[i].value, path, depth + 1, max_depth)
             \o CollectItems(doc, prefix, depth, max_depth, i + 1)

\* get_available_paths(profile, max_depth)
get_available_paths(profile, max_depth) ==
  IF max_depth < 0 THEN Err("InvalidArgument")
  ELSE Ok(CollectPaths(profile, <<>>, 0, max_depth))

(***************************************************************************)
(* oh_parser.extract: the printed outline.                                 *)
(***************************************************************************)
\* sample elements of a sequence the outline shows
SampleLimit == 3

Min(a, b) == IF a <= b THEN a ELSE b

\* the outline below a container at `depth`: one line per key (or sample element)
\* with the type of its value, then the value's own outline one level down, or a
\* truncation marker where max_depth forbids the descent
RECURSIVE Outline(_, _, _, _)
RECURSIVE OutlineItems(_, _, _, _, _)
Outline(doc, prefix, depth, max_depth) ==
  LET shown == IF doc.tag = "Sequence" THEN Min(Len(doc.items), SampleLimit)
               ELSE Len(doc.items)
  IN  OutlineItems(doc, prefix, depth, max_depth, shown)
        \o (IF shown < Len(doc.items)
            THEN <<Line("more_elements", "", Len(doc.items) - shown, prefix, <<>>)>>
            ELSE <<>>)

OutlineItems(doc, prefix, depth, max_depth, n) ==
  IF n = 0 THEN <<>>
  ELSE LET path == Append(prefix, SegmentOf(doc, n))
           child == doc.items[n].value
       IN  OutlineItems(doc, prefix, depth, max_depth, n - 1)
             \o <<Line("node", child.tag, child.value, path, <<>>)>>
             \o (IF ~IsContainer(child) THEN <<>>
                 ELSE IF depth < max_depth
                      THEN Outline(child, path, depth + 1, max_depth)
                      ELSE <<Line("depth_truncated", child.tag, 0, path, <<>>)>>)

\* inspect_profile(profile, max_depth): the lines it prints
inspect_profile(profile, max_depth) ==
  IF max_depth < 0 THEN Err("InvalidArgument")
  ELSE Ok(IF IsContainer(profile) THEN Outline(profile, <<>>, 0, max_depth)
          ELSE <<Line("node", profile.tag, profile.value, <<>>, <<>>)>>)

(***************************************************************************)
(* oh_parser.extract: the summary table.                                   *)
(***************************************************************************)
\* the probed field paths (keys from the root)
CandidateFields == << <<"x">>, <<"x", "y">>, <<"z">> >>

\* whether the keys of `path` lead from doc to a present value
RECURSIVE Resolves(_, _)
Resolves(doc, path) ==
  IF path = <<>> THEN doc.tag # "None"
  ELSE /\ doc.tag = "Mapping"
       /\ \E i \in 1..Len(doc.items) :
            /\ doc.items[i].key = path[1]
            /\ Resolves(doc.items[i].value, Tail(path))

SummaryRow(store, id) ==
  Line("row", id, 0, <<>>,
       [j \in 1..Len(CandidateFields) |-> Resolves(store[id], CandidateFields[j])])

\* mutant: a subject none of whose probed fields is present gets no row
summarize_profiles_DropsEmpty(store) ==
  LET subjects == list_subjects(store)
      kept == SelectSeq(subjects,
                        LAMBDA id : \E j \in 1..Len(CandidateFields) :
                                      Resolves(store[id], CandidateFields[j]))
  IN  Ok([i \in 1..Len(kept) |-> SummaryRow(store, kept[i])])

\* summarize_profiles(store): one row per subject, in list_subjects order
summarize_profiles(store) ==
  LET subjects == list_subjects(store)
  IN  Ok([i \in 1..Len(subjects) |-> SummaryRow(store, subjects[i])])

(***************************************************************************)
(* State.                                                                  *)
(*   fs           the directory at args.directory                          *)
(*   args         the parsed command line (argparse Namespace)             *)
(*   pc           "start", "loaded", "done" for main();                    *)
(*                "lib_start", "lib" for a library caller                  *)
(*   profiles     the store load_profiles returned                         *)
(*   action       the branch of main() that ran ("" before it)             *)
(*   stdout, stderr   the lines main() printed                             *)
(*   diagnostics  what load_profiles printed                               *)
(*   exitCode     the process's exit status, -1 while it runs              *)
(*   call, result the library caller's last call and what it returned      *)
(*   earlier      what the latest summarize_profiles call before the last   *)
(*                call returned                                            *)
(***************************************************************************)
VARIABLES fs, args, pc, profiles, action, stdout, stderr, diagnostics,
          exitCode, call, result, earlier

vars ==
  <<fs, args, pc, profiles, action, stdout, stderr, diagnostics, exitCode,
    call, result, earlier>>

cliVars == <<action, stdout, stderr, exitCode>>

libVars == <<call, result, earlier>>

(***************************************************************************)
(* The command line.  An option that takes a value is None when it is not  *)
(* given.                                                                  *)
(***************************************************************************)
OptNone == [given |-> FALSE, value |-> ""]

Opt(v) == [given |-> TRUE, value |-> v]

\* Python truthiness of an Optional[str]: None and "" are false
Truthy(opt) == opt.given /\ opt.value # ""

SubjectArgs == {OptNone, Opt(""), Opt("A"), Opt("ghost")}

DepthArgs == {-1, 0, 1, DefaultDepth}

ArgSets ==
  [directory : {DEFAULT_OH_DIRECTORY},
   list_subjects : BOOLEAN,
   inspect : SubjectArgs,
   depth : DepthArgs,
   paths : SubjectArgs,
   summary : BOOLEAN,
   quiet : BOOLEAN]

\* parse_args of an empty command line
DefaultArgs ==
  [directory |-> DEFAULT_OH_DIRECTORY, list_subjects |-> FALSE, inspect |-> OptNone,
   depth |-> DefaultDepth, paths |-> OptNone, summary |-> FALSE, quiet |-> FALSE]

NoCall == [op |-> "", id |-> "", depth |-> 0]

NoResult == Err("no call")

Init ==
  /\ fs \in Directories
  /\ args \in ArgSets
  /\ pc = "start"
  /\ profiles = EmptyStore
  /\ action = ""
  /\ stdout = <<>>
  /\ stderr = <<>>
  /\ diagnostics = <<>>
  /\ exitCode = -1
  /\ call = NoCall
  /\ result = NoResult
  /\ earlier = NoResult

(***************************************************************************)
(* main()                                                                  *)
(***************************************************************************)
\* profiles = load_profiles(args.directory, verbose=not args.quiet)
Load ==
  /\ pc = "start"
  /\ LET loaded == load_profiles(fs, ~args.quiet)
     IN  /\ profiles' = loaded.store
         /\ diagnostics' = loaded.diagnostics
  /\ pc' = "loaded"
  /\ UNCHANGED <<fs, args, cliVars, libVars>>

\* mutant: --paths tested before --inspect
Branch_PathsFirst(a) ==
  IF a.list_subjects THEN "list"
  ELSE IF Truthy(a.paths) THEN "paths"
  ELSE IF Truthy(a.inspect) THEN "inspect"
  ELSE IF a.summary THEN "summary"
  ELSE "default"

\* the branch of the if/elif chain the flags select
Branch(a) ==
  IF a.list_subjects THEN "list"
  ELSE IF Truthy(a.inspect) THEN "inspect"
  ELSE IF Truthy(a.paths) THEN "paths"
  ELSE IF a.summary THEN "summary"
  ELSE "default"

\* what a branch leaves behind: the lines on stdout and stderr, the exit status
Outcome(out, err, code) == [stdout |-> out, stderr |-> err, exitCode |-> code]

\* an exception no handler catches: the traceback on stderr, exit status 1
Uncaught(out, kind) == Outcome(out, <<Line("traceback", kind, 0, <<>>, <<>>)>>, 1)

\* mutant: the error message without sys.exit(1)
NotFound_NoExit(id) == Outcome(<<>>, <<Line("not_found", id, 0, <<>>, <<>>)>>, 0)

\* sys.exit(1) after "Error: Subject '...' not found."
NotFound(id) == Outcome(<<>>, <<Line("not_found", id, 0, <<>>, <<>>)>>, 1)

Finish(branch, outcome) ==
  /\ action' = branch
  /\ stdout' = outcome.stdout
  /\ stderr' = outcome.stderr
  /\ exitCode' = outcome.exitCode
  /\ pc' = "done"
  /\ UNCHANGED <<fs, args, profiles, diagnostics, libVars>>

\* mutant: the message, then return instead of sys.exit(1)
NoProfiles_Returns ==
  /\ pc = "loaded"
  /\ DOMAIN profiles = {}
  /\ Finish("none", Outcome(<<>>, <<Text("no_profiles")>>, 0))

\* if not profiles: print("No profiles loaded.", file=sys.stderr); sys.exit(1)
NoProfiles ==
  /\ pc = "loaded"
  /\ DOMAIN profiles = {}
  /\ Finish("none", Outcome(<<>>, <<Text("no_profiles")>>, 1))

\* mutant: subjects[:10], as the default branch prints them
ListOutput_FirstTen(subjects) ==
  <<Line("subjects_header", "", Len(subjects), <<>>, <<>>)>>
    \o [i \in 1..Min(Len(subjects), SubjectsShown) |->
          Line("subject", subjects[i], 0, <<>>, <<>>)]

\* the lines of --list
ListOutput(subjects) ==
  <<Line("subjects_header", "", Len(subjects), <<>>, <<>>)>>
    \o [i \in 1..Len(subjects) |-> Line("subject", subjects[i], 0, <<>>, <<>>)]

ListSubjects ==
  /\ pc = "loaded"
  /\ DOMAIN profiles # {}
  /\ Branch(args) = "list"
  /\ Finish("list", Outcome(ListOutput(list_subjects(profiles)), <<>>, 0))

\* mutant: --depth is not forwarded, inspect_profile runs with the default depth
InspectOutcome_DefaultDepth(store, id, depth) ==
  LET profile == get_profile(store, id)
      header == <<Line("inspecting", id, 0, <<>>, <<>>)>>
  IN  IF profile.error # "" THEN Uncaught(<<>>, profile.error)
      ELSE IF profile.value = NoneDoc THEN NotFound(id)
      ELSE LET outline == inspect_profile(profile.value, DefaultDepth)
           IN  IF outline.error # "" THEN Uncaught(header, outline.error)
               ELSE Outcome(header \o outline.value, <<>>, 0)

\* the --inspect branch
InspectOutcome(store, id, depth) ==
  LET profile == get_profile(store, id)
      header == <<Line("inspecting", id, 0, <<>>, <<>>)>>
  IN  IF profile.error # "" THEN Uncaught(<<>>, profile.error)
      ELSE IF profile.value = NoneDoc THEN NotFound(id)
      ELSE LET outline == inspect_profile(profile.value, depth)
           IN  IF outline.error # "" THEN Uncaught(header, outline.error)
               ELSE Outcome(header \o outline.value, <<>>, 0)

Inspect ==
  /\ pc = "loaded"
  /\ DOMAIN profiles # {}
  /\ Branch(args) = "inspect"
  /\ Finish("inspect", InspectOutcome(profiles, args.inspect.value, args.depth))

\* mutant: the remainder line from 50 paths on (len(paths) >= 50)
PathsOutput_OffByOne(id, paths) ==
  <<Line("paths_header", id, Len(paths), <<>>, <<>>)>>
    \o [i \in 1..Min(Len(paths), PathsShown) |-> Line("path", "", 0, paths[i], <<>>)]
    \o (IF Len(paths) >= PathsShown
        THEN <<Line("more_paths", "", Len(paths) - PathsShown, <<>>, <<>>)>>
        ELSE <<>>)

\* the lines of --paths: the header with the total, paths[:50], the remainder
PathsOutput(id, paths) ==
  <<Line("paths_header", id, Len(paths), <<>>, <<>>)>>
    \o [i \in 1..Min(Len(paths), PathsShown) |-> Line("path", "", 0, paths[i], <<>>)]
    \o (IF Len(paths) > PathsShown
        THEN <<Line("more_paths", "", Len(paths) - PathsShown, <<>>, <<>>)>>
        ELSE <<>>)

\* mutant: no "profile is None" test, None goes to get_available_paths
PathsOutcome_NoNoneCheck(store, id) ==
  LET profile == get_profile(store, id)
  IN  IF profile.error # "" THEN Uncaught(<<>>, profile.error)
      ELSE IF profile.value = NoneDoc THEN Uncaught(<<>>, "TypeError")
      ELSE LET paths == get_available_paths(profile.value, PathsMaxDepth)
           IN  IF paths.error # "" THEN Uncaught(<<>>, paths.error)
               ELSE Outcome(PathsOutput(id, paths.value), <<>>, 0)

\* the --paths branch
PathsOutcome(store, id) ==
  LET profile == get_profile(store, id)
  IN  IF profile.error # "" THEN Uncaught(<<>>, profile.error)
      ELSE IF profile.value = NoneDoc THEN NotFound(id)
      ELSE LET paths == get_available_paths(profile.value, PathsMaxDepth)
           IN  IF paths.error # "" THEN Uncaught(<<>>, paths.error)
               ELSE Outcome(PathsOutput(id, paths.value), <<>>, 0)

Paths ==
  /\ pc = "loaded"
  /\ DOMAIN profiles # {}
  /\ Branch(args) = "paths"
  /\ Finish("paths", PathsOutcome(profiles, args.paths.value))

\* the --summary branch: the title, then the table (df.to_string)
SummaryOutcome(store) ==
  LET df == summarize_profiles(store)
      title == <<Text("summary_title")>>
  IN  IF df.error # "" THEN Uncaught(title, df.error)
      ELSE Outcome(title \o <<Line("table_header", "", Len(CandidateFields), <<>>, <<>>)>>
                     \o df.value, <<>>, 0)

Summary ==
  /\ pc = "loaded"
  /\ DOMAIN profiles # {}
  /\ Branch(args) = "summary"
  /\ Finish("summary", SummaryOutcome(profiles))

\* mutant: the remainder from 10 subjects on (len(subjects) >= 10)
DefaultOutcome_OffByOne(directory, subjects) ==
  LET info ==
        <<Line("loaded_count", "", Len(subjects), <<>>, <<>>),
          Line("subjects_shown", "", 0,
               SubSeq(subjects, 1, Min(Len(subjects), SubjectsShown)), <<>>)>>
          \o (IF Len(subjects) >= SubjectsShown
              THEN <<Line("more_subjects", "", Len(subjects) - SubjectsShown, <<>>, <<>>)>>
              ELSE <<>>)
          \o <<Text("usage_title"), Line("usage_list", directory, 0, <<>>, <<>>)>>
  IN  IF subjects = <<>> THEN Uncaught(info, "IndexError")
      ELSE Outcome(info \o <<Line("usage_inspect", directory, 0, <<subjects[1]>>, <<>>),
                             Line("usage_summary", directory, 0, <<>>, <<>>)>>,
                   <<>>, 0)

\* the lines of the default branch: the count, subjects[:10], the remainder,
\* the usage examples; subjects[0] raises IndexError on an empty list
DefaultOutcome(directory, subjects) ==
  LET info ==
        <<Line("loaded_count", "", Len(subjects), <<>>, <<>>),
          Line("subjects_shown", "", 0,
               SubSeq(subjects, 1, Min(Len(subjects), SubjectsShown)), <<>>)>>
          \o (IF Len(subjects) > SubjectsShown
              THEN <<Line("more_subjects", "", Len(subjects) - SubjectsShown, <<>>, <<>>)>>
              ELSE <<>>)
          \o <<Text("usage_title"), Line("usage_list", directory, 0, <<>>, <<>>)>>
  IN  IF subjects = <<>> THEN Uncaught(info, "IndexError")
      ELSE Outcome(info \o <<Line("usage_inspect", directory, 0, <<subjects[1]>>, <<>>),
                             Line("usage_summary", directory, 0, <<>>, <<>>)>>,
                   <<>>, 0)

Default ==
  /\ pc = "loaded"
  /\ DOMAIN profiles # {}
  /\ Branch(args) = "default"
  /\ Finish("default", DefaultOutcome(args.directory, list_subjects(profiles)))

Next == Load \/ NoProfiles \/ ListSubjects \/ Inspect \/ Paths \/ Summary \/ Default

Spec == Init /\ [][Next]_vars

(***************************************************************************)
(* A caller of the library (testing.py: load_profiles, list_subjects,      *)
(* get_profile, inspect_profile).  Every call leaves the store as it is.   *)
(***************************************************************************)
LibIds == {"A", "B", "ghost"}

LibDepths == (-1..MaxLibDepth) \cup {PathsMaxDepth}

LibInit ==
  /\ fs \in Directories
  /\ args = DefaultArgs
  /\ pc = "lib_start"
  /\ profiles = EmptyStore
  /\ action = ""
  /\ stdout = <<>>
  /\ stderr = <<>>
  /\ diagnostics = <<>>
  /\ exitCode = -1
  /\ call = NoCall
  /\ result = NoResult
  /\ earlier = NoResult

LibLoad ==
  /\ pc = "lib_start"
  /\ LET loaded == load_profiles(fs, TRUE)
     IN  /\ profiles' = loaded.store
         /\ diagnostics' = loaded.diagnostics
  /\ pc' = "lib"
  /\ UNCHANGED <<fs, args, cliVars, libVars>>

Returned(op, id, depth, value) ==
  /\ pc = "lib"
  /\ call' = [op |-> op, id |-> id, depth |-> depth]
  /\ result' = value
  /\ earlier' = IF call.op = "summarize" THEN result ELSE earlier
  /\ UNCHANGED <<fs, args, pc, profiles, diagnostics, cliVars>>

CallListSubjects == Returned("list_subjects", "", 0, Ok(list_subjects(profiles)))

CallGetProfile == \E id \in LibIds : Returned("get_profile", id, 0, get_profile(profiles, id))

CallPaths ==
  \E id \in LibIds \cap DOMAIN profiles, d \in LibDepths :
    Returned("get_available_paths", id, d, get_available_paths(profiles[id], d))

CallInspect ==
  \E id \in LibIds \cap DOMAIN profiles, d \in LibDepths :
    Returned("inspect_profile", id, d, inspect_profile(profiles[id], d))

CallSummarize == Returned("summarize", "", 0, summarize_profiles(profiles))

LibNext ==
  LibLoad \/ CallListSubjects \/ CallGetProfile \/ CallPaths \/ CallInspect \/ CallSummarize

LibSpec == LibInit /\ [][LibNext]_vars

(***************************************************************************)
(* Properties.  Definitions used by several of them first.                 *)
(***************************************************************************)
Finished == pc = "done"

Ids == {SubjectOrder[i] : i \in 1..Len(SubjectOrder)}

\* no file of the directory can be loaded: it is missing, or every file fails
\* the naming convention or does not parse
NothingLoadable == ~fs.exists \/ \A i \in 1..Len(fs.files) : ~(fs.files[i].json /\ fs.files[i].parses)

\* the directory holds only well-formed JSON files
OnlyWellFormed == fs.exists /\ \A i \in 1..Len(fs.files) : fs.files[i].json /\ fs.files[i].parses

Stems == {fs.files[i].stem : i \in 1..Len(fs.files)}

\* the precedence --list > --inspect > --paths > --summary > default
InspectRuns == ~args.list_subjects /\ Truthy(args.inspect)

PathsRuns == ~args.list_subjects /\ ~Truthy(args.inspect) /\ Truthy(args.paths)

SummaryRuns == ~args.list_subjects /\ ~Truthy(args.inspect) /\ ~Truthy(args.paths) /\ args.summary

Kinds(lines) == {lines[i].kind : i \in 1..Len(lines)}

\* a sequence of subject ids in strictly increasing sorted order
StrictlySorted(seq) == \A i, j \in 1..Len(seq) : i < j => Rank(seq[i]) < Rank(seq[j])

(* C1: whenever load_profiles returns an empty store (missing directory, no
   matching file, every file unparsable), main() prints "No profiles loaded."
   to stderr and exits with status 1 before any branch runs, whatever the
   flags: nothing is printed on stdout. *)
C1_EmptyStoreExits ==
  (pc # "start" /\ NothingLoadable => DOMAIN profiles = {})
    /\ (Finished /\ DOMAIN profiles = {} =>
          /\ action = "none"
          /\ stderr = <<Text("no_profiles")>>
          /\ stdout = <<>>
          /\ exitCode = 1)

\* every file unparsable, all of --list, --inspect, --paths, --summary given
C1_Witness ==
  /\ Finished
  /\ fs.exists /\ Len(fs.files) > 0 /\ NothingLoadable
  /\ args.list_subjects /\ Truthy(args.inspect) /\ Truthy(args.paths) /\ args.summary
  /\ exitCode = 1

(* C2 as stated: on a non-empty store, for every combination of flags, main()
   exits with status 1 (error message on stderr, no outline or path list) if a
   subject requested through --inspect or --paths is not in the store, and
   with status 0 otherwise.  Stated for the invocations with --depth >= 0, in
   which no library call raises. *)
C2_Original ==
  Finished /\ DOMAIN profiles # {} /\ args.depth >= 0 =>
    IF \/ Truthy(args.inspect) /\ args.inspect.value \notin DOMAIN profiles
       \/ Truthy(args.paths) /\ args.paths.value \notin DOMAIN profiles
    THEN exitCode = 1 /\ stderr # <<>> /\ Kinds(stdout) \cap {"inspecting", "node", "path"} = {}
    ELSE exitCode = 0

(* C2 amended: on a non-empty store main() exits with status 1 exactly when the
   branch chosen by the precedence --list > --inspect > --paths > --summary is
   --inspect or --paths and its subject is not in the store (then the error
   message is the only output), or when the chosen branch is --inspect on a
   present subject and inspect_profile raises (main() has no handler); it
   exits with status 0 otherwise, with nothing on stderr. *)
C2_ExitStatus ==
  Finished /\ DOMAIN profiles # {} =>
    LET inspectMissing == InspectRuns /\ args.inspect.value \notin DOMAIN profiles
        pathsMissing == PathsRuns /\ args.paths.value \notin DOMAIN profiles
        raised == /\ InspectRuns
                  /\ args.inspect.value \in DOMAIN profiles
                  /\ inspect_profile(profiles[args.inspect.value], args.depth).error # ""
    IN  /\ exitCode \in {0, 1}
        /\ exitCode = 1 <=> (inspectMissing \/ pathsMissing \/ raised)
        /\ inspectMissing =>
             stdout = <<>> /\ stderr = <<Line("not_found", args.inspect.value, 0, <<>>, <<>>)>>
        /\ pathsMissing =>
             stdout = <<>> /\ stderr = <<Line("not_found", args.paths.value, 0, <<>>, <<>>)>>
        /\ exitCode = 0 => stderr = <<>>

\* --inspect ghost alone, on a store without ghost
C2_Witness ==
  /\ Finished
  /\ DOMAIN profiles # {}
  /\ args.inspect = Opt("ghost") /\ ~args.list_subjects
  /\ exitCode = 1
  /\ stderr = <<Line("not_found", "ghost", 0, <<>>, <<>>)>>

(* C3: --paths on a present subject whose enumeration at max_depth 6 has n
   entries prints the header with n as the total, then exactly min(n, 50) path
   lines, the first min(n, 50) entries in enumeration order, and a trailing
   "... and n-50 more" line if and only if n > 50. *)
C3_PathsListing ==
  Finished /\ action = "paths" /\ args.paths.value \in DOMAIN profiles =>
    LET paths == get_available_paths(profiles[args.paths.value], PathsMaxDepth).value
        n == Len(paths)
        shown == IF n < 50 THEN n ELSE 50
    IN  /\ stdout[1] = Line("paths_header", args.paths.value, n, <<>>, <<>>)
        /\ \A i \in 1..shown : stdout[i + 1] = Line("path", "", 0, paths[i], <<>>)
        /\ IF n > 50
           THEN /\ Len(stdout) = shown + 2
                /\ stdout[shown + 2] = Line("more_paths", "", n - 50, <<>>, <<>>)
           ELSE Len(stdout) = shown + 1
        /\ stderr = <<>> /\ exitCode = 0

\* 51 paths: 50 lines and "... and 1 more"
C3_Witness ==
  /\ Finished /\ action = "paths"
  /\ args.paths.value \in DOMAIN profiles
  /\ Len(get_available_paths(profiles[args.paths.value], PathsMaxDepth).value) = 51
  /\ stdout[Len(stdout)].kind = "more_paths" /\ stdout[Len(stdout)].n = 1

(* C4: with no action flag and a store of n >= 1 subjects main() prints the
   count n, the first min(n, 10) subject ids in sorted order, "... and n-10
   more" if and only if n > 10, and usage examples whose --inspect example
   names the first sorted subject; subjects[0] is never evaluated on an empty
   list. *)
C4_DefaultInfo ==
  Finished /\ action = "default" =>
    LET n == Cardinality(DOMAIN profiles)
        shown == IF n < 10 THEN n ELSE 10
        ids == stdout[2].path
        usage == IF n > 10 THEN 4 ELSE 3
    IN  /\ n >= 1
        /\ stdout[1] = Line("loaded_count", "", n, <<>>, <<>>)
        /\ stdout[2].kind = "subjects_shown"
        /\ Len(ids) = shown /\ StrictlySorted(ids)
        /\ \A i \in 1..shown :
             /\ ids[i] \in DOMAIN profiles
             /\ Cardinality({s \in DOMAIN profiles : Rank(s) < Rank(ids[i])}) = i - 1
        /\ (n > 10) <=> (stdout[3] = Line("more_subjects", "", n - 10, <<>>, <<>>))
        /\ "more_subjects" \in Kinds(stdout) <=> n > 10
        /\ Len(stdout) = usage + 3
        /\ stdout[usage] = Text("usage_title")
        /\ stdout[usage + 1] = Line("usage_list", args.directory, 0, <<>>, <<>>)
        /\ stdout[usage + 2] = Line("usage_inspect", args.directory, 0, <<ids[1]>>, <<>>)
        /\ stdout[usage + 3] = Line("usage_summary", args.directory, 0, <<>>, <<>>)
        /\ stderr = <<>> /\ exitCode = 0

\* 11 subjects: ten shown and "... and 1 more"
C4_Witness ==
  /\ Finished /\ action = "default"
  /\ Cardinality(DOMAIN profiles) = 11
  /\ stdout[3] = Line("more_subjects", "", 1, <<>>, <<>>)
  /\ stdout[6].path = <<"S01">>

\* the document a library call was made on
Called == profiles[call.id]

NonEmpty(doc) == IsContainer(doc) /\ Len(doc.items) > 0

InSeq(x, seq) == \E i \in 1..Len(seq) : seq[i] = x

\* the specification's example: for {"x": {"y": 1}}, depth 1 yields "x" but not
\* "x.y", depth 2 yields both
ExampleHolds ==
  call.op = "get_available_paths" /\ Called = ExampleA =>
    /\ call.depth = 1 =>
         InSeq(<<Key("x")>>, result.value) /\ ~InSeq(<<Key("x"), Key("y")>>, result.value)
    /\ call.depth = 2 =>
         InSeq(<<Key("x")>>, result.value) /\ InSeq(<<Key("x"), Key("y")>>, result.value)

(* C5 as stated: for every document and every max_depth >= 0,
   get_available_paths returns no path whose nesting level exceeds max_depth,
   and at least one path when the document is non-empty, max_depth = 0
   included, with the levels counted as in the specification's example. *)
C5_Original ==
  call.op = "get_available_paths" /\ call.depth >= 0 =>
    /\ result.error = ""
    /\ \A i \in 1..Len(result.value) : Len(result.value[i]) <= call.depth
    /\ NonEmpty(Called) => result.value # <<>>
    /\ ExampleHolds

(* C5 amended: for every document and every max_depth >= 0,
   get_available_paths returns no path whose nesting level exceeds max_depth,
   with the levels counted as in the specification's example; it returns at
   least one path for a non-empty document when max_depth >= 1, and no path at
   all when max_depth = 0. *)
C5_DepthBound ==
  call.op = "get_available_paths" /\ call.depth >= 0 =>
    /\ result.error = ""
    /\ \A i \in 1..Len(result.value) : Len(result.value[i]) <= call.depth
    /\ NonEmpty(Called) /\ call.depth >= 1 => result.value # <<>>
    /\ call.depth = 0 => result.value = <<>>
    /\ ExampleHolds

\* {"x": {"y": 1}} at max_depth 2: "x" and "x.y"
C5_Witness ==
  /\ call.op = "get_available_paths"
  /\ Called = ExampleA
  /\ call.depth = 2
  /\ result.value = << <<Key("x")>>, <<Key("x"), Key("y")>> >>

(* C6: for a directory of well-formed JSON files only, load_profiles returns a
   store whose key set is the set of file stems, each id mapped to the
   document of the last file with that stem, and list_subjects returns exactly
   those keys in sorted order without duplicates; --list prints that sequence
   with its length as the count. *)
C6_LoadAndList ==
  LET subjects == list_subjects(profiles)
      n == Cardinality(DOMAIN profiles)
  IN  /\ pc # "start" /\ OnlyWellFormed =>
           /\ DOMAIN profiles = Stems
           /\ \A i \in 1..Len(fs.files) :
                (\A j \in (i + 1)..Len(fs.files) : fs.files[j].stem # fs.files[i].stem)
                  => profiles[fs.files[i].stem] = fs.files[i].doc
      /\ Len(subjects) = n
      /\ StrictlySorted(subjects)
      /\ \A i \in 1..n : subjects[i] \in DOMAIN profiles
      /\ Finished /\ action = "list" =>
           /\ Len(stdout) = n + 1
           /\ stdout[1] = Line("subjects_header", "", n, <<>>, <<>>)
           /\ \A i \in 1..n : stdout[i + 1] = Line("subject", subjects[i], 0, <<>>, <<>>)

\* --list on two well-formed files with the same stem and different documents
C6_Witness ==
  /\ Finished /\ action = "list"
  /\ OnlyWellFormed
  /\ Len(fs.files) = 2
  /\ fs.files[1].stem = fs.files[2].stem
  /\ fs.files[1].doc # fs.files[2].doc
  /\ profiles[fs.files[1].stem] = fs.files[2].doc

(* C7: a negative max depth is rejected: --inspect on a present subject with
   --depth N, N < 0 (forwarded unchecked by the CLI), ends with an
   InvalidArgument error and no outline line is printed. *)
C7_NegativeDepthRejected ==
  Finished /\ action = "inspect" /\ args.inspect.value \in DOMAIN profiles /\ args.depth < 0 =>
    /\ stderr = <<Line("traceback", "InvalidArgument", 0, <<>>, <<>>)>>
    /\ exitCode = 1
    /\ Kinds(stdout) \cap {"node", "depth_truncated", "more_elements"} = {}

\* --inspect A --depth -1 on a store holding A
C7_Witness ==
  /\ Finished /\ action = "inspect"
  /\ args.inspect.value \in DOMAIN profiles
  /\ args.depth = -1
  /\ exitCode = 1

(* C8: for every store and every subject id not in it get_profile returns None
   and raises nothing, and the store stays what load_profiles returned; the
   CLI turns the None into the error message on stderr and exit status 1, and
   no exception escapes. *)
C8_AbsentSubject ==
  /\ \A id \in Ids \ DOMAIN profiles : get_profile(profiles, id) = Ok(NoneDoc)
  /\ pc # "start" => profiles = load_profiles(fs, TRUE).store
  /\ \A id \in Ids \ DOMAIN profiles :
       (Finished /\ (\/ action = "inspect" /\ args.inspect.value = id
                     \/ action = "paths" /\ args.paths.value = id))
         => (/\ stderr = <<Line("not_found", id, 0, <<>>, <<>>)>>
             /\ stdout = <<>>
             /\ exitCode = 1)

\* --paths ghost on a non-empty store without ghost
C8_Witness ==
  /\ Finished /\ action = "paths"
  /\ args.paths.value = "ghost"
  /\ "ghost" \notin DOMAIN profiles
  /\ stderr = <<Line("not_found", "ghost", 0, <<>>, <<>>)>>

(* C9: summarize_profiles returns exactly one row per subject, in sorted
   subject order, none omitted even when all of its probed fields are absent;
   a second call on the unmodified store returns the same rows in the same
   order; the call leaves the store as load_profiles returned it. *)
C9_Summarize ==
  call.op = "summarize" =>
    LET rows == result.value
    IN  /\ result.error = ""
        /\ Len(rows) = Cardinality(DOMAIN profiles)
        /\ StrictlySorted([i \in 1..Len(rows) |-> rows[i].id])
        /\ \A i \in 1..Len(rows) :
             /\ rows[i].id \in DOMAIN profiles
             /\ Len(rows[i].present) = Len(CandidateFields)
        /\ earlier.error = "" => result = earlier
        /\ profiles = load_profiles(fs, TRUE).store

\* a second summarize call, on several subjects, one of them with no probed field
C9_Witness ==
  /\ call.op = "summarize"
  /\ earlier.error = ""
  /\ Cardinality(DOMAIN profiles) >= 2
  /\ \E i \in 1..Len(result.value) : \A j \in 1..Len(CandidateFields) : ~result.value[i].present[j]

(* C10: on a non-empty store main() runs exactly one of the five branches,
   chosen by the precedence --list > --inspect > --paths > --summary >
   default; an --inspect or --paths value that is the empty string counts as
   not given; the flags of lower precedence than the chosen branch cause no
   output and no not-found exit. *)
C10_OneBranchByPrecedence ==
  Finished /\ DOMAIN profiles # {} =>
    /\ action = (IF args.list_subjects THEN "list"
                 ELSE IF args.inspect.given /\ args.inspect.value # "" THEN "inspect"
                 ELSE IF args.paths.given /\ args.paths.value # "" THEN "paths"
                 ELSE IF args.summary THEN "summary"
                 ELSE "default")
    /\ Kinds(stdout) \subseteq
         CASE action = "list" -> {"subjects_header", "subject"}
           [] action = "inspect" -> {"inspecting", "node", "depth_truncated", "more_elements"}
           [] action = "paths" -> {"paths_header", "path", "more_paths"}
           [] action = "summary" -> {"summary_title", "table_header", "row"}
           [] action = "default" ->
                {"loaded_count", "subjects_shown", "more_subjects", "usage_title",
                 "usage_list", "usage_inspect", "usage_summary"}
    /\ action \in {"list", "summary", "default"} => stderr = <<>> /\ exitCode = 0
    /\ \A i \in 1..Len(stderr) :
         stderr[i].kind = "not_found" =>
           stderr[i].id = (IF action = "inspect" THEN args.inspect.value ELSE args.paths.value)
    /\ ~ENABLED Next

\* --inspect "" --paths A --summary: the paths branch runs
C10_Witness ==
  /\ Finished
  /\ ~args.list_subjects
  /\ args.inspect = Opt("") /\ args.paths = Opt("A") /\ args.summary
  /\ action = "paths"
  /\ exitCode = 0

=============================================================================
